---- MODULE Spec2Model ----
(***************************************************************************)
(* A model of train_words.py: nearest-neighbour token tagging.             *)
(*                                                                         *)
(*   Spec         main(), train() and evaluate() as one sequential         *)
(*                process, one action per statement group                  *)
(*   SpecExtract  Model.get_word_representations on drawn batches          *)
(*   SpecDecode   get_batch_predictions on drawn representations           *)
(*   SpecLoss     get_batch_loss on drawn representations and targets      *)
(*   SpecDevice   move_to_device on drawn nested structures                *)
(*                                                                         *)
(* Reals are not available: a validation score is an exact fraction        *)
(* <<numerator, denominator>>, and a softmax probability is kept as its    *)
(* unnormalised mass (the exponential of the similarity), so that          *)
(* log-sum-exp over a set of neighbours is the sum of their masses and     *)
(* -infinity is the mass 0.                                                *)
(***************************************************************************)
EXTENDS Integers, Sequences, FiniteSets, TLC

VARIABLES
    cfg,            \* the run's configuration (hydra cfg), fixed for the run
    data,           \* len(train_dataset), len(validation_dataset) in batches
    pc,             \* position of the single thread of control
    epoch,          \* main: loop variable of `for epoch in range(cfg.epochs)`
    remaining,      \* train: batches the shuffled iterator has not yielded yet
    batch,          \* train: the batch being processed (0: none)
    served,         \* train: batches yielded so far this epoch, in order
    trace,          \* train: <<batch, step>> executed so far this epoch
    grad,           \* the .grad buffers: the loss gradients accumulated in them
    applied,        \* train: the gradient each optimizer.step() of the epoch used
    params,         \* model weights: the number of updates applied to them
    opt_state,      \* optimizer state: AdamW's step count
    sched_state,    \* scheduler state: the schedule's step count
    grad_enabled,   \* torch's gradient mode
    training,       \* model.training (dropout on)
    reps_grad,      \* train: requires_grad of <<batch, neighbor>> representations
    train_totals,   \* train: its locals total_loss (losses added) and total_preds (batches counted)
    total_preds,    \* evaluate
    total_golds,    \* evaluate
    total_corrects, \* evaluate
    eval_left,      \* evaluate: validation batches not yet iterated
    result,         \* evaluate: what the call produced
    best_f1,        \* main
    saved,          \* epochs at which torch.save wrote cfg.save
    final_saved,    \* number of writes of wandb.run.dir/model.pt
    f1_history,     \* history: the f1 evaluate returned to main, epoch by epoch
    eval_passes,    \* history: completed calls of evaluate
    args,           \* the arguments of the function under study (pure-function specs)
    ret,            \* its return value
    fn_pc           \* "idle", "ready" (arguments drawn) or "returned"

ctl == <<cfg, data, pc, epoch, remaining, batch, served, trace, grad, applied,
         params, opt_state, sched_state, grad_enabled, training, reps_grad,
         train_totals, total_preds, total_golds, total_corrects, eval_left,
         result, best_f1, saved, final_saved, f1_history, eval_passes>>
fn == <<args, ret, fn_pc>>
vars == <<ctl, fn>>

\* Bounds of the model.
MaxEpochs == 2
MaxTrainBatches == 2
MaxValBatches == 2

(***************************************************************************)
(* Exact fractions for precision, recall and F1.                           *)
(***************************************************************************)
RECURSIVE GCD(_, _)
GCD(a, b) == IF b = 0 THEN a ELSE GCD(b, a % b)

\* n/d in lowest terms (d > 0): equal fractions are equal values, as floats are
Rat(n, d) == LET g == GCD(n, d) IN IF g = 0 THEN <<0, 1>> ELSE <<n \div g, d \div g>>

\* float("-inf")
NegInf == <<-1, 0>>

\* a > b on floats
RatGt(a, b) ==
    IF a = NegInf THEN FALSE
    ELSE IF b = NegInf THEN TRUE
    ELSE a[1] * b[2] > b[1] * a[2]

\* what the external scorers (accuracy_eval, span_eval) can report for one
\* batch: <<predicted, gold, correct>> with correct <= predicted, gold
ScorerOutcomes == {<<0, 0, 0>>, <<1, 0, 0>>, <<0, 1, 0>>, <<1, 1, 0>>, <<1, 1, 1>>}

\* micro_prec = total_corrects / total_preds if total_preds > 0 else 0
MicroPrec(corrects, preds) == IF preds > 0 THEN Rat(corrects, preds) ELSE <<0, 1>>

\* micro_rec = total_corrects / total_golds if total_golds > 0 else 0
MicroRec(corrects, golds) == IF golds > 0 THEN Rat(corrects, golds) ELSE <<0, 1>>

\* the denominator of micro_f1, micro_prec + micro_rec, as a numerator over
\* the common denominator p[2] * r[2]
F1Denominator(p, r) == p[1] * r[2] + r[1] * p[2]

\* a variant that guards the division: F1 = 0 when precision + recall = 0
MicroF1Guarded(p, r) ==
    IF F1Denominator(p, r) = 0
    THEN [status |-> "returned", prec |-> p, rec |-> r, f1 |-> <<0, 1>>]
    ELSE [status |-> "returned", prec |-> p, rec |-> r,
          f1 |-> Rat(2 * p[1] * r[1], F1Denominator(p, r))]

\* micro_f1 = 2 * micro_prec * micro_rec / (micro_prec + micro_rec); return
\* the triple, or raise ZeroDivisionError
MicroF1(p, r) ==
    IF F1Denominator(p, r) = 0
    THEN [status |-> "ZeroDivisionError", prec |-> p, rec |-> r, f1 |-> NegInf]
    ELSE [status |-> "returned", prec |-> p, rec |-> r,
          f1 |-> Rat(2 * p[1] * r[1], F1Denominator(p, r))]

NoResult == [status |-> "none", prec |-> <<0, 1>>, rec |-> <<0, 1>>, f1 |-> NegInf]

(***************************************************************************)
(* The run: main, train, evaluate.                                         *)
(***************************************************************************)
Configs ==
    [eval_only : BOOLEAN,
     epochs : 0..MaxEpochs,
     save : BOOLEAN,                        \* cfg.save is not None
     no_grad_through_neighbors : BOOLEAN,
     eval_accuracy : BOOLEAN,
     scheduler : {TRUE}]                    \* main always builds a schedule

Datasets == [train : 1..MaxTrainBatches, validation : 1..MaxValBatches]

\* the steps of one training batch, in the order of train's loop body
BatchSteps(has_scheduler) ==
    <<"zero_grad", "forward", "loss", "backward", "clip", "optimizer_step">>
    \o (IF has_scheduler THEN <<"scheduler_step">> ELSE <<>>)

\* the gradient of batch b's loss as train back-propagates it: the loss of b
\* divided by x.numel() of b
LossGrad(b) == [batch |-> b, divided_by |-> "x.numel()"]

FnIdle == args = <<>> /\ ret = <<>> /\ fn_pc = "idle"

Init ==
    /\ cfg \in Configs
    /\ data \in Datasets
    /\ pc = "main"
    /\ epoch = 0
    /\ remaining = {}
    /\ batch = 0
    /\ served = <<>>
    /\ trace = <<>>
    /\ grad = {}
    /\ applied = <<>>
    /\ params = 0
    /\ opt_state = 0
    /\ sched_state = 0
    /\ grad_enabled = TRUE
    /\ training = TRUE
    /\ reps_grad = <<FALSE, FALSE>>
    /\ train_totals = [total_loss |-> 0, total_preds |-> 0]
    /\ total_preds = 0
    /\ total_golds = 0
    /\ total_corrects = 0
    /\ eval_left = 0
    /\ result = NoResult
    /\ best_f1 = NegInf
    /\ saved = {}
    /\ final_saved = 0
    /\ f1_history = <<>>
    /\ eval_passes = 0
    /\ FnIdle

trainVars == <<remaining, batch, served, trace, applied, reps_grad, train_totals>>
evalVars == <<total_golds, total_corrects, eval_left, result, eval_passes>>
mainVars == <<epoch, best_f1, saved, final_saved, f1_history>>
modelVars == <<params, opt_state, sched_state, grad>>

\* main, lines 295-299: evaluation only, under torch.no_grad()
MainEvalOnly ==
    /\ pc = "main" /\ cfg.eval_only
    /\ grad_enabled' = FALSE
    /\ pc' = "evaluate"
    /\ UNCHANGED <<cfg, data, trainVars, evalVars, mainVars, modelVars,
                   training, total_preds, fn>>

\* main, lines 301-333: build the optimizer and the schedule, best_f1 = -inf
MainTrainSetup ==
    /\ pc = "main" /\ ~cfg.eval_only
    /\ opt_state' = 0
    /\ sched_state' = 0
    /\ best_f1' = NegInf
    /\ epoch' = 0
    /\ pc' = "epoch_loop"
    /\ UNCHANGED <<cfg, data, trainVars, evalVars, saved, final_saved, f1_history, params, grad, grad_enabled, training, total_preds, fn>>

\* main, lines 334-337: the next epoch calls train (lines 136-138)
EpochBegin ==
    /\ pc = "epoch_loop" /\ epoch < cfg.epochs
    /\ training' = TRUE
    /\ train_totals' = [total_loss |-> 0, total_preds |-> 0]
    /\ remaining' = 1..data.train
    /\ served' = <<>>
    /\ trace' = <<>>
    /\ applied' = <<>>
    /\ batch' = 0
    /\ pc' = "train_iter"
    /\ UNCHANGED <<cfg, data, reps_grad, evalVars, mainVars, modelVars,
                   grad_enabled, total_preds, fn>>

\* main, line 350: after the last epoch, the unconditional save
FinalSave ==
    /\ pc = "epoch_loop" /\ epoch >= cfg.epochs
    /\ final_saved' = final_saved + 1
    /\ pc' = "done"
    /\ UNCHANGED <<cfg, data, trainVars, evalVars, epoch, best_f1, saved, f1_history, modelVars, grad_enabled, training, total_preds, fn>>

\* train, line 140: the shuffled iterator yields some batch not yet yielded
TrainIter ==
    /\ pc = "train_iter" /\ remaining # {}
    /\ \E b \in remaining :
        /\ batch' = b
        /\ remaining' = remaining \ {b}
        /\ served' = Append(served, b)
    /\ pc' = "zero_grad"
    /\ UNCHANGED <<cfg, data, trace, applied, reps_grad, train_totals, evalVars,
                   mainVars, modelVars, grad_enabled, training, total_preds>>
    /\ UNCHANGED fn

\* train, line 174: the iterator is exhausted, train returns the mean loss
TrainReturn ==
    /\ pc = "train_iter" /\ remaining = {}
    /\ batch' = 0
    /\ pc' = "train_return"
    /\ UNCHANGED <<cfg, data, remaining, served, trace, applied, reps_grad,
                   train_totals, evalVars, mainVars, modelVars, grad_enabled,
                   training, total_preds, fn>>

Step(name, next) ==
    /\ pc = name
    /\ trace' = Append(trace, <<batch, name>>)
    /\ pc' = next

\* train, line 141: optimizer.zero_grad()
\* a variant of line 141 that leaves the .grad buffers as they are
ZeroGradKeep ==
    /\ Step("zero_grad", "forward")
    /\ UNCHANGED <<cfg, data, remaining, batch, served, applied, reps_grad,
                   train_totals, evalVars, mainVars, modelVars, grad_enabled,
                   training, total_preds, fn>>

ZeroGrad ==
    /\ Step("zero_grad", "forward")
    /\ grad' = {}
    /\ UNCHANGED <<cfg, data, remaining, batch, served, applied, reps_grad,
                   train_totals, evalVars, mainVars, params, opt_state, sched_state,
                   grad_enabled, training, total_preds, fn>>

\* train, lines 142-159: move the batch, the query representations with the
\* ambient gradient mode, the neighbour representations under
\* set_grad_enabled(not cfg.no_grad_through_neighbors), the optional cosine
\* normalisation
Forward ==
    /\ Step("forward", "loss")
    /\ reps_grad' = <<grad_enabled, ~cfg.no_grad_through_neighbors>>
    /\ UNCHANGED <<cfg, data, remaining, batch, served, applied, train_totals,
                   evalVars, mainVars, modelVars, grad_enabled, training,
                   total_preds, fn>>

\* train, line 161: loss = get_batch_loss(...)
Loss ==
    /\ Step("loss", "backward")
    /\ UNCHANGED <<cfg, data, remaining, batch, served, applied, reps_grad,
                   train_totals, evalVars, mainVars, modelVars, grad_enabled,
                   training, total_preds, fn>>

\* train, line 162: loss.div(x.numel()).backward() adds to the .grad buffers
Backward ==
    /\ Step("backward", "clip")
    /\ grad' = grad \cup {LossGrad(batch)}
    /\ UNCHANGED <<cfg, data, remaining, batch, served, applied, reps_grad,
                   train_totals, evalVars, mainVars, params, opt_state, sched_state,
                   grad_enabled, training, total_preds, fn>>

\* train, line 163: clip_grad_norm_ rescales the buffers in place
ClipGradNorm ==
    /\ Step("clip", "optimizer_step")
    /\ UNCHANGED <<cfg, data, remaining, batch, served, applied, reps_grad,
                   train_totals, evalVars, mainVars, modelVars, grad_enabled,
                   training, total_preds, fn>>

\* train, line 164: optimizer.step() updates the weights from the buffers
OptimizerStep ==
    /\ Step("optimizer_step", IF cfg.scheduler THEN "scheduler_step" ELSE "accumulate")
    /\ params' = params + 1
    /\ opt_state' = opt_state + 1
    /\ applied' = Append(applied, grad)
    /\ UNCHANGED <<cfg, data, remaining, batch, served, reps_grad, train_totals,
                   evalVars, mainVars, sched_state, grad, grad_enabled, training,
                   total_preds, fn>>

\* train, lines 165-166: scheduler.step()
SchedulerStep ==
    /\ Step("scheduler_step", "accumulate")
    /\ sched_state' = sched_state + 1
    /\ UNCHANGED <<cfg, data, remaining, batch, served, applied, reps_grad,
                   train_totals, evalVars, mainVars, params, opt_state, grad,
                   grad_enabled, training, total_preds, fn>>

\* train, lines 168-173: the running totals and the log records
Accumulate ==
    /\ pc = "accumulate"
    /\ train_totals' = [total_loss |-> train_totals.total_loss + 1,
                        total_preds |-> train_totals.total_preds + 1]
    /\ pc' = "train_iter"
    /\ UNCHANGED <<cfg, data, remaining, batch, served, trace, applied, reps_grad,
                   evalVars, mainVars, modelVars, grad_enabled, training,
                   total_preds, fn>>

\* main, lines 338-340: per-epoch validation, under torch.no_grad()
\* a variant of lines 338-340 without the torch.no_grad() scope
ValidateEpochWithGrad ==
    /\ pc = "train_return"
    /\ pc' = "evaluate"
    /\ UNCHANGED <<cfg, data, trainVars, evalVars, mainVars, modelVars,
                   grad_enabled, training, total_preds, fn>>

ValidateEpoch ==
    /\ pc = "train_return"
    /\ grad_enabled' = FALSE
    /\ pc' = "evaluate"
    /\ UNCHANGED <<cfg, data, trainVars, evalVars, mainVars, modelVars,
                   training, total_preds, fn>>

\* evaluate, lines 182-184: model.eval(), the totals start at 0
EvaluateBegin ==
    /\ pc = "evaluate"
    /\ training' = FALSE
    /\ total_preds' = 0
    /\ total_golds' = 0
    /\ total_corrects' = 0
    /\ eval_left' = data.validation
    /\ result' = NoResult
    /\ pc' = "eval_iter"
    /\ UNCHANGED <<cfg, data, trainVars, eval_passes, mainVars, modelVars,
                   grad_enabled, fn>>

\* evaluate, lines 185-219: one validation batch: representations, decoding,
\* the scorer's counts (for accuracy the gold count is the predicted count)
EvaluateBatch ==
    /\ pc = "eval_iter" /\ eval_left > 0
    /\ \E o \in ScorerOutcomes :
        /\ cfg.eval_accuracy => o[2] = o[1]
        /\ total_preds' = total_preds + o[1]
        /\ total_golds' = total_golds + o[2]
        /\ total_corrects' = total_corrects + o[3]
    /\ eval_left' = eval_left - 1
    /\ UNCHANGED <<cfg, data, pc, trainVars, result, eval_passes, mainVars,
                   modelVars, grad_enabled, training, fn>>

\* evaluate, lines 221-224: precision, recall, F1; ZeroDivisionError ends the run
EvaluateFinish ==
    /\ pc = "eval_iter" /\ eval_left = 0
    /\ LET r == MicroF1(MicroPrec(total_corrects, total_preds),
                        MicroRec(total_corrects, total_golds))
       IN /\ result' = r
          /\ pc' = IF r.status = "returned" THEN "eval_return" ELSE "error"
          /\ eval_passes' = IF r.status = "returned" THEN eval_passes + 1
                            ELSE eval_passes
          /\ f1_history' = IF r.status = "returned" /\ ~cfg.eval_only
                           THEN Append(f1_history, r.f1) ELSE f1_history
    /\ UNCHANGED <<cfg, data, trainVars, total_preds, total_golds, total_corrects,
                   eval_left, epoch, best_f1, saved, final_saved, modelVars,
                   grad_enabled, training, fn>>

\* main, line 299: the evaluation-only run logs the triple and ends
EvalOnlyDone ==
    /\ pc = "eval_return" /\ cfg.eval_only
    /\ grad_enabled' = TRUE
    /\ pc' = "done"
    /\ UNCHANGED <<cfg, data, trainVars, evalVars, mainVars, modelVars, training,
                   total_preds, fn>>

\* a variant of lines 341-349 that compares with f1 >= best_f1
TrackBestNonStrict ==
    /\ pc = "eval_return" /\ ~cfg.eval_only
    /\ grad_enabled' = TRUE
    /\ IF ~RatGt(best_f1, result.f1)
       THEN /\ best_f1' = result.f1
            /\ saved' = IF cfg.save THEN saved \cup {epoch} ELSE saved
       ELSE UNCHANGED <<best_f1, saved>>
    /\ epoch' = epoch + 1
    /\ pc' = "epoch_loop"
    /\ UNCHANGED <<cfg, data, trainVars, evalVars, final_saved, f1_history,
                   modelVars, training, total_preds, fn>>

\* main, lines 341-349: leave no_grad; a new best F1 is recorded and, with a
\* save path, the weights are written; then the next epoch
TrackBest ==
    /\ pc = "eval_return" /\ ~cfg.eval_only
    /\ grad_enabled' = TRUE
    /\ IF RatGt(result.f1, best_f1)
       THEN /\ best_f1' = result.f1
            /\ saved' = IF cfg.save THEN saved \cup {epoch} ELSE saved
       ELSE UNCHANGED <<best_f1, saved>>
    /\ epoch' = epoch + 1
    /\ pc' = "epoch_loop"
    /\ UNCHANGED <<cfg, data, trainVars, evalVars, final_saved, f1_history,
                   modelVars, training, total_preds, fn>>

Next ==
    \/ MainEvalOnly
    \/ MainTrainSetup
    \/ EpochBegin
    \/ FinalSave
    \/ TrainIter
    \/ TrainReturn
    \/ ZeroGrad
    \/ Forward
    \/ Loss
    \/ Backward
    \/ ClipGradNorm
    \/ OptimizerStep
    \/ SchedulerStep
    \/ Accumulate
    \/ ValidateEpoch
    \/ EvaluateBegin
    \/ EvaluateBatch
    \/ EvaluateFinish
    \/ EvalOnlyDone
    \/ TrackBest

Spec == Init /\ [][Next]_vars

(***************************************************************************)
(* Model.get_word_representations.                                         *)
(***************************************************************************)
MaxBatch == 3
MaxShard == 4

\* the run is not under study: its variables rest
CtlIdle ==
    /\ cfg = [eval_only |-> TRUE, epochs |-> 0, save |-> FALSE,
              no_grad_through_neighbors |-> FALSE, eval_accuracy |-> FALSE,
              scheduler |-> TRUE]
    /\ data = [train |-> 1, validation |-> 1]
    /\ pc = "idle"
    /\ epoch = 0
    /\ remaining = {}
    /\ batch = 0
    /\ served = <<>>
    /\ trace = <<>>
    /\ grad = {}
    /\ applied = <<>>
    /\ params = 0
    /\ opt_state = 0
    /\ sched_state = 0
    /\ grad_enabled = TRUE
    /\ training = TRUE
    /\ reps_grad = <<FALSE, FALSE>>
    /\ train_totals = [total_loss |-> 0, total_preds |-> 0]
    /\ total_preds = 0
    /\ total_golds = 0
    /\ total_corrects = 0
    /\ eval_left = 0
    /\ result = NoResult
    /\ best_f1 = NegInf
    /\ saved = {}
    /\ final_saved = 0
    /\ f1_history = <<>>
    /\ eval_passes = 0

\* sentences of two sub-word positions: token ids (0 pads) and the word
\* mapping matrix (row = word slot, 1 over the pieces of the word)
Corpus ==
    {[x |-> <<1, 2>>, mapper |-> <<<<1, 0>>, <<0, 1>>>>],   \* two one-piece words
     [x |-> <<1, 0>>, mapper |-> <<<<1, 0>>, <<0, 0>>>>],   \* one word, one pad
     [x |-> <<2, 1>>, mapper |-> <<<<1, 1>>, <<0, 0>>>>]}   \* one two-piece word

\* the sequences over S of length 1..n
SeqsUpTo(S, n) == UNION {[1..k -> S] : k \in 1..n}

\* mask = (x != 0).long(), row by row
AttentionMask(x) == [i \in DOMAIN x |-> [j \in DOMAIN x[i] |-> IF x[i][j] # 0 THEN 1 ELSE 0]]

\* the encoders: any function from a sentence (ids, mask) to one value per
\* sub-word position (hidden size 1); it encodes each sentence of a batch alone
Encoders ==
    [{<<s.x, AttentionMask(<<s.x>>)[1]>> : s \in Corpus} -> [1..2 -> {0, 1}]]

\* bertrep, _ = self.bert(x, attention_mask=mask)
Bert(bert, x, mask) == [i \in DOMAIN x |-> bert[<<x[i], mask[i]>>]]

RECURSIVE SumOver(_, _)
SumOver(f, S) ==
    IF S = {} THEN 0 ELSE LET j == CHOOSE k \in S : TRUE IN f[j] + SumOver(f, S \ {j})

\* torch.bmm(mapper, bertrep): per sentence, word r sums the pieces mapper marks
Bmm(mapper, bertrep) ==
    [i \in DOMAIN mapper |->
        [r \in DOMAIN mapper[i] |->
            SumOver([j \in DOMAIN bertrep[i] |-> mapper[i][r][j] * bertrep[i][j]],
                    DOMAIN bertrep[i])]]

\* lines 69-77: the pass without sharding; the result is attached to the
\* encoder's graph when gradient mode is on
WordRepresentations(bert, x, mapper, grad_mode) ==
    [data |-> Bmm(mapper, Bert(bert, x, AttentionMask(x))),
     requires_grad |-> grad_mode]

\* a variant of torch.split that drops a last chunk smaller than `size`
RECURSIVE TorchSplitDropRemainder(_, _)
TorchSplitDropRemainder(t, size) ==
    IF Len(t) < size THEN <<>>
    ELSE <<SubSeq(t, 1, size)>> \o TorchSplitDropRemainder(SubSeq(t, size + 1, Len(t)), size)

\* torch.split(t, size, dim=0): chunks of `size` rows, the last one smaller
RECURSIVE TorchSplit(_, _)
TorchSplit(t, size) ==
    IF Len(t) <= size THEN <<t>>
    ELSE <<SubSeq(t, 1, size)>> \o TorchSplit(SubSeq(t, size + 1, Len(t)), size)

\* zip(a, b)
Zip(a, b) ==
    [i \in 1..(IF Len(a) < Len(b) THEN Len(a) ELSE Len(b)) |-> <<a[i], b[i]>>]

\* torch.cat(parts, dim=0): rows in order; attached if any part is
RECURSIVE CatData(_)
CatData(parts) == IF parts = <<>> THEN <<>> ELSE Head(parts).data \o CatData(Tail(parts))

TorchCat(parts) ==
    [data |-> CatData(parts),
     requires_grad |-> \E i \in DOMAIN parts : parts[i].requires_grad]

\* lines 50-77; shard_batch_size is <<>> for None and <<K>> for K
GetWordRepresentations(bert, x, mapper, shard_batch_size, grad_mode) ==
    IF shard_batch_size # <<>>
    THEN LET pairs == Zip(TorchSplit(x, shard_batch_size[1]),
                          TorchSplit(mapper, shard_batch_size[1]))
         IN TorchCat([i \in DOMAIN pairs |->
                WordRepresentations(bert, pairs[i][1], pairs[i][2], grad_mode)])
    ELSE WordRepresentations(bert, x, mapper, grad_mode)

\* the calls of train (lines 145, 149) and evaluate (lines 194, 196): a batch
\* of sentences, None or cfg.shard_batch_size, and the gradient mode in force
ExtractArgs ==
    {[bert |-> e,
      x |-> [i \in DOMAIN b |-> b[i].x],
      mapper |-> [i \in DOMAIN b |-> b[i].mapper],
      shard_batch_size |-> k,
      grad_mode |-> g] :
        e \in Encoders, b \in SeqsUpTo(Corpus, MaxBatch),
        k \in {<<>>} \cup {<<n>> : n \in 1..MaxShard}, g \in BOOLEAN}

InitExtract ==
    /\ CtlIdle
    /\ args \in ExtractArgs
    /\ ret = <<>>
    /\ fn_pc = "ready"

CallGetWordRepresentations ==
    /\ fn_pc = "ready"
    /\ ret' = GetWordRepresentations(args.bert, args.x, args.mapper,
                                     args.shard_batch_size, args.grad_mode)
    /\ fn_pc' = "returned"
    /\ UNCHANGED <<ctl, args>>

NextExtract == CallGetWordRepresentations

SpecExtract == InitExtract /\ [][NextExtract]_vars

\* C3: with any shard size K >= 1 the result has the data of the unsharded
\* pass over the whole batch, one row per input sentence, and row i is the
\* representation of sentence i computed alone
C3_ShardingEquivalence ==
    fn_pc = "returned" =>
        /\ ret.data = WordRepresentations(args.bert, args.x, args.mapper,
                                          args.grad_mode).data
        /\ Len(ret.data) = Len(args.x)
        /\ \A i \in 1..Len(args.x) :
              ret.data[i] = WordRepresentations(args.bert, <<args.x[i]>>,
                                                <<args.mapper[i]>>, args.grad_mode).data[1]

\* C3 witness: three different sentences in shards of two (K < B, K does not
\* divide B), the encoder telling the sentences apart
C3_Witness ==
    /\ fn_pc = "returned"
    /\ args.shard_batch_size = <<2>>
    /\ Len(args.x) = 3
    /\ \A i, j \in 1..3 : i # j => ret.data[i] # ret.data[j]

\* C10, as claimed: a sharded call with K < B returns representations
\* detached from the encoder, an unsharded call keeps gradient tracking
C10_ShardedPathDetached ==
    fn_pc = "returned" =>
        IF args.shard_batch_size # <<>> /\ args.shard_batch_size[1] < Len(args.x)
        THEN ~ret.requires_grad
        ELSE ret.requires_grad = args.grad_mode

(***************************************************************************)
(* get_batch_predictions and get_batch_loss.                               *)
(*                                                                         *)
(* A log-probability is the pair <<n, d>> standing for log(n / d), d > 0;  *)
(* -infinity is <<0, 1>>.  The exponential is taken to base 2, so that the *)
(* masses of integer similarities are integers.                            *)
(***************************************************************************)
MaxNeighbors == 2
MaxTags == 2
MaxCorrect == 2

\* representation vectors: hidden size 1, entries 0 or 1
Vectors == {<<0>>, <<1>>}

\* the shapes batch_size x seq_len of a query batch
QueryShapes == {<<1, 1>>, <<1, 2>>, <<2, 1>>, <<2, 2>>}

TagNames == <<"O", "PER", "LOC", "ORG", "MISC">>

Dot(u, v) == SumOver([k \in DOMAIN u |-> u[k] * v[k]], DOMAIN u)

\* t.view(-1, hidden_size) of a batch_size x seq_len x hidden_size tensor
Flatten(t) ==
    LET seq_len == Len(t[1])
    IN [q \in 1..(Len(t) * seq_len) |->
            t[((q - 1) \div seq_len) + 1][((q - 1) % seq_len) + 1]]

\* torch.mm(a, b.t())
Mm(a, b) == [q \in DOMAIN a |-> [n \in DOMAIN b |-> Dot(a[q], b[n])]]

Exp2(s) == 2 ^ s

\* torch.log_softmax(scores, dim=1)
LogSoftmax(scores) ==
    [q \in DOMAIN scores |->
        LET total == SumOver([n \in DOMAIN scores[q] |-> Exp2(scores[q][n])],
                             DOMAIN scores[q])
        IN [n \in DOMAIN scores[q] |-> <<Exp2(scores[q][n]), total>>]]

MinusInf == <<0, 1>>

\* score + mask for an additive mask "0" or "-inf"
AddMask(score, mask) == IF mask = "-inf" THEN MinusInf ELSE score

RECURSIVE ProdOver(_, _)
ProdOver(f, S) ==
    IF S = {} THEN 1 ELSE LET j == CHOOSE k \in S : TRUE IN f[j] * ProdOver(f, S \ {j})

\* torch.logsumexp(row, dim): log of the sum of the n[i]/d[i], over the
\* common denominator; -inf (numerator 0) for an all -inf row
LogSumExp(row) ==
    <<SumOver([i \in DOMAIN row |->
                 row[i][1] * ProdOver([j \in DOMAIN row |->
                                          IF j = i THEN 1 ELSE row[j][2]], DOMAIN row)],
              DOMAIN row),
      ProdOver([j \in DOMAIN row |-> row[j][2]], DOMAIN row)>>

\* a > b on log-probabilities
LogGt(a, b) == a[1] * b[2] > b[1] * a[2]

\* a variant of argmax that returns the last maximal index
ArgmaxLast(values) ==
    CHOOSE i \in DOMAIN values :
        /\ \A j \in DOMAIN values : ~LogGt(values[j], values[i])
        /\ \A j \in DOMAIN values : j > i => LogGt(values[i], values[j])

\* argmax: the index of the first maximal value
Argmax(values) ==
    CHOOSE i \in DOMAIN values :
        /\ \A j \in DOMAIN values : ~LogGt(values[j], values[i])
        /\ \A j \in DOMAIN values : j < i => LogGt(values[i], values[j])

\* a variant of view that lays the predictions out seq_len x batch_size
ViewTransposed(flat, batch_size, seq_len) ==
    [s \in 1..seq_len |-> [b \in 1..batch_size |-> flat[(b - 1) * seq_len + s]]]

\* flat.view(batch_size, seq_len)
View(flat, batch_size, seq_len) ==
    [b \in 1..batch_size |-> [s \in 1..seq_len |-> flat[(b - 1) * seq_len + s]]]

\* the element of a one-element set; {e(x) : x \in {v}} names the value v as
\* x, the way an assignment to a local does
The(S) == CHOOSE x \in S : TRUE

\* lines 113-132; neighbor_representations is N x hidden_size, a mask is one
\* row of N entries broadcast over the query tokens
GetBatchPredictions(batch_representations, neighbor_representations, tag_to_mask) ==
    LET batch_size == Len(batch_representations)
        seq_len == Len(batch_representations[1])
        index_to_tag == [i \in DOMAIN tag_to_mask |-> tag_to_mask[i][1]]
    IN The({[b \in DOMAIN preds |-> [s \in DOMAIN preds[b] |-> index_to_tag[preds[b][s]]]] :
         preds \in {View([q \in DOMAIN tag_scores[1] |->
                            Argmax([t \in DOMAIN tag_to_mask |-> tag_scores[t][q]])],
                         batch_size, seq_len) :
         tag_scores \in {[t \in DOMAIN tag_to_mask |->
                            [q \in DOMAIN scores |->
                                LogSumExp([n \in DOMAIN scores[q] |->
                                    AddMask(scores[q][n], tag_to_mask[t][2][n])])]] :
         scores \in {LogSoftmax(Mm(Flatten(batch_representations),
                                   neighbor_representations))}}}})

Representations(shapes) ==
    UNION {[1..sh[1] -> [1..sh[2] -> Vectors]] : sh \in shapes}

NeighborPools == UNION {[1..n -> Vectors] : n \in 1..MaxNeighbors}

\* the ordered tables of k (tag, mask) pairs over n neighbour tokens
TagTables(n) ==
    UNION {{[i \in 1..k |-> <<TagNames[i], m[i]>>] : m \in [1..k -> [1..n -> {"0", "-inf"}]]}
           : k \in 1..MaxTags}

DecodeArgs ==
    UNION {[batch_representations : Representations(QueryShapes),
            neighbor_representations : {nr},
            tag_to_mask : TagTables(Len(nr))] : nr \in NeighborPools}

InitDecode ==
    /\ CtlIdle
    /\ args \in DecodeArgs
    /\ ret = <<>>
    /\ fn_pc = "ready"

CallGetBatchPredictions ==
    /\ fn_pc = "ready"
    /\ ret' = GetBatchPredictions(args.batch_representations,
                                  args.neighbor_representations, args.tag_to_mask)
    /\ fn_pc' = "returned"
    /\ UNCHANGED <<ctl, args>>

NextDecode == CallGetBatchPredictions

SpecDecode == InitDecode /\ [][NextDecode]_vars

\* the tags of a table
TableTags(table) == {table[i][1] : i \in DOMAIN table}

\* C1: the predictions have the shape batch_size x seq_len of the query batch
\* and every entry is a tag of the tag-to-mask table, whatever the masks
C1_TagFromTable ==
    fn_pc = "returned" =>
        /\ Len(ret) = Len(args.batch_representations)
        /\ \A b \in 1..Len(ret) :
              /\ Len(ret[b]) = Len(args.batch_representations[b])
              /\ \A s \in 1..Len(ret[b]) : ret[b][s] \in TableTags(args.tag_to_mask)

\* C1 witness: a 1 x 2 query batch decoded against a table of two tags whose
\* masks are -inf everywhere
C1_Witness ==
    /\ fn_pc = "returned"
    /\ Len(args.batch_representations) = 1
    /\ Len(args.batch_representations[1]) = 2
    /\ Len(args.tag_to_mask) = 2
    /\ \A t \in 1..2 : \A n \in DOMAIN args.tag_to_mask[t][2] :
          args.tag_to_mask[t][2][n] = "-inf"
    /\ Len(ret) = 1 /\ Len(ret[1]) = 2

\* the probability mass (times the row's normaliser) that query token
\* (b, s) gives to the neighbour tokens that tag t leaves unmasked
TagMass(b, s, t) ==
    LET open == {n \in DOMAIN args.neighbor_representations :
                    args.tag_to_mask[t][2][n] = "0"}
    IN SumOver([n \in DOMAIN args.neighbor_representations |->
                   2 ^ Dot(args.batch_representations[b][s],
                           args.neighbor_representations[n])], open)

\* C8: each query token gets the tag of the first table entry whose
\* aggregated score is maximal
C8_FirstMaxTag ==
    fn_pc = "returned" =>
        \A b \in 1..Len(ret) : \A s \in 1..Len(ret[b]) :
            \E t \in DOMAIN args.tag_to_mask :
                /\ ret[b][s] = args.tag_to_mask[t][1]
                /\ \A u \in DOMAIN args.tag_to_mask : TagMass(b, s, u) <= TagMass(b, s, t)
                /\ \A u \in DOMAIN args.tag_to_mask : u < t => TagMass(b, s, u) < TagMass(b, s, t)

\* C8 witness: two tags tie with a positive score and the first is returned
C8_Witness ==
    /\ fn_pc = "returned"
    /\ Len(args.tag_to_mask) = 2
    /\ TagMass(1, 1, 1) = TagMass(1, 1, 2)
    /\ TagMass(1, 1, 1) > 0
    /\ args.tag_to_mask[1][2] # args.tag_to_mask[2][2]
    /\ ret[1][1] = args.tag_to_mask[1][1]

\* the shapes batch_size x seq_len of a query batch of the loss
LossShapes == {<<1, 1>>, <<1, 2>>, <<2, 1>>}

\* a variant of lines 98-99 whose extra column is 0 (probability 1), not -inf
DummyColumnZero(scores) == [q \in DOMAIN scores |-> Append(scores[q], <<1, 1>>)]

\* lines 98-99: one more column, of -inf, at index N
DummyColumn(scores) == [q \in DOMAIN scores |-> Append(scores[q], MinusInf)]

\* scores.gather(1, index): row q picks its columns index[q]
Gather(scores, index) ==
    [q \in DOMAIN scores |-> [m \in DOMAIN index[q] |-> scores[q][index[q][m]]]]

\* the sum of a sequence of log-values, log(n1/d1) + log(n2/d2) + ..., as the
\* pair <<n1 * n2 * ..., d1 * d2 * ...>>; a term of -inf makes it -inf
LogTotal(rows) ==
    <<ProdOver([q \in DOMAIN rows |-> rows[q][1]], DOMAIN rows),
      ProdOver([q \in DOMAIN rows |-> rows[q][2]], DOMAIN rows)>>

\* -v: log(n/d) becomes log(d/n); <<d, 0>> is +inf
Negate(v) == <<v[2], v[1]>>

\* lines 86-103; neighbor_representations is N x hidden_size; an index of
\* targets is 1..N for a neighbour token and N + 1 for the empty slot (the
\* code counts from 0: 0..N-1 and N)
GetBatchLoss(batch_representations, neighbor_representations, targets) ==
    The({Negate(loss) :
         loss \in {LogTotal([q \in DOMAIN target_scores |-> LogSumExp(target_scores[q])]) :
         target_scores \in {Gather(scores, Flatten(targets)) :
         scores \in {DummyColumn(LogSoftmax(Mm(Flatten(batch_representations),
                                               neighbor_representations)))}}}})

\* targets of shape sh x m over n neighbour tokens
Targets(sh, m, n) == [1..sh[1] -> [1..sh[2] -> [1..m -> 1..(n + 1)]]]

LossArgs ==
    UNION {UNION {[batch_representations : Representations({sh}),
                   neighbor_representations : {nr},
                   targets : UNION {Targets(sh, m, Len(nr)) : m \in 1..MaxCorrect}]
                  : sh \in LossShapes} : nr \in NeighborPools}

InitLoss ==
    /\ CtlIdle
    /\ args \in LossArgs
    /\ ret = <<>>
    /\ fn_pc = "ready"

CallGetBatchLoss ==
    /\ fn_pc = "ready"
    /\ ret' = GetBatchLoss(args.batch_representations,
                           args.neighbor_representations, args.targets)
    /\ fn_pc' = "returned"
    /\ UNCHANGED <<ctl, args>>

NextLoss == CallGetBatchLoss

SpecLoss == InitLoss /\ [][NextLoss]_vars

\* the loss log(n/d) is >= 0 (+inf included)
NonNegativeLoss(v) == v[2] = 0 \/ v[1] >= v[2]

NumNeighbors == Len(args.neighbor_representations)

\* every query token has a target index that is not the empty slot
EveryTokenHasTarget ==
    \A b \in DOMAIN args.targets : \A s \in DOMAIN args.targets[b] :
        \E m \in DOMAIN args.targets[b][s] : args.targets[b][s][m] <= NumNeighbors

\* no query token lists the same neighbour token twice
TargetsDistinct ==
    \A b \in DOMAIN args.targets : \A s \in DOMAIN args.targets[b] :
        \A m, k \in DOMAIN args.targets[b][s] :
            (m # k /\ args.targets[b][s][m] <= NumNeighbors)
                => args.targets[b][s][m] # args.targets[b][s][k]

MaxItems == 2

Tensor(device) == [kind |-> "tensor", device |-> device, items |-> <<>>]

Scalar == [kind |-> "scalar", device |-> "", items |-> <<>>]

ContainerKinds == {"dict", "list", "namedtuple", "tuple", "other"}

Containers(S) ==
    {[kind |-> k, device |-> "", items |-> it] :
        k \in ContainerKinds, it \in SeqsUpTo(S, MaxItems)}

Leaves == {Tensor("cpu"), Scalar}

\* structures nested up to two containers deep, their tensors on the CPU
Objects == Leaves \cup Containers(Leaves) \cup Containers(Leaves \cup Containers(Leaves))

Devices == {"cpu", "cuda:0"}

\* lines 24-38: the isinstance chain; the last branch returns obj as it is
RECURSIVE MoveToDevice(_, _)
MoveToDevice(obj, cuda_device) ==
    IF cuda_device = "cpu" THEN obj
    ELSE IF obj.kind = "tensor" THEN Tensor(cuda_device)
    ELSE IF obj.kind \in {"dict", "list", "namedtuple", "tuple"}
    THEN [obj EXCEPT !.items =
            [i \in DOMAIN obj.items |-> MoveToDevice(obj.items[i], cuda_device)]]
    ELSE obj

InitDevice ==
    /\ CtlIdle
    /\ args \in [obj : Objects, cuda_device : Devices]
    /\ ret = <<>>
    /\ fn_pc = "ready"

\* the call returns a value; no branch raises
CallMoveToDevice ==
    /\ fn_pc = "ready"
    /\ ret' = [raised |-> FALSE, value |-> MoveToDevice(args.obj, args.cuda_device)]
    /\ fn_pc' = "returned"
    /\ UNCHANGED <<ctl, args>>

NextDevice == CallMoveToDevice

SpecDevice == InitDevice /\ [][NextDevice]_vars

\* the value is, or holds at some depth, a container of an unrecognized shape
RECURSIVE HasUnrecognized(_)
HasUnrecognized(obj) ==
    \/ obj.kind = "other"
    \/ \E i \in DOMAIN obj.items : HasUnrecognized(obj.items[i])

\* the value holds, at some depth, a tensor on the CPU
RECURSIVE HoldsCpuTensor(_)
HoldsCpuTensor(obj) ==
    \/ obj.kind = "tensor" /\ obj.device = "cpu"
    \/ \E i \in DOMAIN obj.items : HoldsCpuTensor(obj.items[i])

\* the value is, or holds at some depth, an unrecognized container with a
\* CPU tensor in it
RECURSIVE UnrecognizedHoldsTensor(_)
UnrecognizedHoldsTensor(obj) ==
    \/ obj.kind = "other" /\ HoldsCpuTensor(obj)
    \/ \E i \in DOMAIN obj.items : UnrecognizedHoldsTensor(obj.items[i])

\* C6, as claimed: a transfer to an accelerator of a value that holds tensors
\* in a container of an unrecognized shape fails with an error; it does not
\* return a value in which those tensors are left where they were
C6_UnrecognizedFailsFast ==
    (fn_pc = "returned" /\ args.cuda_device # "cpu"
        /\ UnrecognizedHoldsTensor(args.obj)) =>
            /\ ret.raised
            /\ ~HoldsCpuTensor(ret.value)

(***************************************************************************)
(* Properties of the run.                                                  *)
(***************************************************************************)
\* the largest of a sequence of scores, -inf for none
RECURSIVE MaxF1(_)
MaxF1(h) ==
    IF h = <<>> THEN NegInf
    ELSE LET m == MaxF1(Tail(h)) IN IF RatGt(m, Head(h)) THEN m ELSE Head(h)

\* the epochs (from 0) whose score is strictly greater than every earlier one
NewBestEpochs(h) ==
    {i - 1 : i \in {k \in 1..Len(h) : \A j \in 1..(k - 1) : RatGt(h[k], h[j])}}

\* C4: in a training run, whenever main is between epochs (or inside train or
\* evaluate), best_f1 is the maximum validation F1 returned so far and the
\* epochs at which cfg.save was written are exactly the epochs whose F1 was
\* strictly greater than every earlier epoch's, none when no save path is
\* configured; the final model.pt is written exactly once, when the run ends
\* after its last epoch, and never before.
C4_BestF1AndSaves ==
    ~cfg.eval_only =>
        /\ pc # "eval_return" =>
              /\ best_f1 = MaxF1(f1_history)
              /\ saved = IF cfg.save THEN NewBestEpochs(f1_history) ELSE {}
        /\ final_saved = IF pc = "done" THEN 1 ELSE 0
        /\ pc = "done" => epoch = cfg.epochs /\ Len(f1_history) = cfg.epochs

\* C4 witness: a finished two-epoch run with a save path whose second epoch
\* did not improve on the first
C4_Witness ==
    /\ pc = "done" /\ ~cfg.eval_only /\ cfg.save
    /\ Len(f1_history) = 2
    /\ saved = {0}
    /\ final_saved = 1

\* C5: once evaluate has computed its result, precision is 0 if nothing was
\* predicted, recall is 0 if there was no gold item, and if both are 0 the
\* call raised ZeroDivisionError instead of returning a triple
C5_ZeroDenominators ==
    result.status # "none" =>
        /\ total_preds = 0 => result.prec = <<0, 1>>
        /\ total_golds = 0 => result.rec = <<0, 1>>
        /\ (result.prec[1] = 0 /\ result.rec[1] = 0) =>
              /\ result.status = "ZeroDivisionError"
              /\ pc = "error"

\* C5 witness: an evaluation with no prediction and no gold item has raised
C5_Witness ==
    /\ pc = "error"
    /\ result.status = "ZeroDivisionError"
    /\ total_preds = 0 /\ total_golds = 0
    /\ eval_left = 0

EvalPcs == {"evaluate", "eval_iter", "eval_return"}

\* C7: the weights and the optimizer state change only in optimizer.step()
\* and the schedule state only in scheduler.step(), both inside train; every
\* evaluation pass runs with gradient tracking disabled; a finished
\* evaluation-only run has made one evaluation pass and no training step
C7_OnlyTrainingMutates ==
    /\ [][/\ params' # params => pc = "optimizer_step"
          /\ opt_state' # opt_state => pc = "optimizer_step"
          /\ sched_state' # sched_state => pc = "scheduler_step"]_vars
    /\ [](pc \in EvalPcs => ~grad_enabled)
    /\ []((pc = "done" /\ cfg.eval_only) =>
            /\ eval_passes = 1
            /\ params = 0 /\ opt_state = 0 /\ sched_state = 0
            /\ served = <<>> /\ trace = <<>>)

\* C7 witness: a validation pass of a training run has returned, after
\* optimizer steps, with gradient tracking still disabled
C7_Witness ==
    /\ pc = "eval_return" /\ ~cfg.eval_only
    /\ params > 0
    /\ ~grad_enabled
    /\ eval_passes = 2

\* C9: within an epoch the executed steps are, batch after batch in the order
\* the iterator served them, exactly the steps of the loop body in order, each
\* once; a batch is served once; the k-th optimizer step of the epoch used the
\* gradient of the k-th served batch alone (its loss divided by its token
\* count); when train returns, every batch has had all its steps
C9_StepOrder ==
    LET steps == BatchSteps(cfg.scheduler)
        L == Len(steps)
    IN  /\ Len(trace) <= L * Len(served)
        /\ Len(served) > 0 => Len(trace) >= L * (Len(served) - 1)
        /\ \A i \in 1..Len(trace) :
              trace[i] = <<served[((i - 1) \div L) + 1], steps[((i - 1) % L) + 1]>>
        /\ \A i, j \in 1..Len(served) : i # j => served[i] # served[j]
        /\ Len(applied) =
              Cardinality({i \in 1..Len(trace) : trace[i][2] = "optimizer_step"})
        /\ \A k \in 1..Len(applied) : applied[k] = {LossGrad(served[k])}
        /\ pc = "train_return" =>
              /\ Len(served) = data.train
              /\ Len(trace) = L * data.train
              /\ Len(applied) = data.train

\* C9 witness: train has returned from a second epoch of two batches
C9_Witness ==
    /\ pc = "train_return"
    /\ epoch = 1
    /\ data.train = 2
    /\ Len(applied) = 2
    /\ params = 4

====
